---- MODULE Spec2Model ----
(***************************************************************************)
(* A model of distutils' fancy_getopt.py: the FancyGetopt option-table     *)
(* engine (constructor, add_option, set_negative_aliases,                  *)
(* _grok_option_table, getopt, get_option_order), wrap_text and            *)
(* generate_help.                                                          *)
(*                                                                         *)
(* Python strings whose characters the code inspects (option names, help   *)
(* text, output lines) are sequences of one-character strings.  Python     *)
(* dictionaries are functions whose DOMAIN is the set of keys.             *)
(***************************************************************************)
EXTENDS Integers, Sequences, FiniteSets, TLC

VARIABLES
    \* ---- FancyGetopt instance (lines 52-86)
    option_table,     \* self.option_table: sequence of <<long, short, help>>
    option_index,     \* self.option_index: long option -> option tuple
    negative_alias,   \* self.negative_alias
    short_opts,       \* self.short_opts
    long_opts,        \* self.long_opts
    short2long,       \* self.short2long
    attr_name,        \* self.attr_name
    takes_arg,        \* self.takes_arg
    option_order,     \* self.option_order
    object,           \* the target record handed to getopt: attribute -> value
    \* ---- observation of the calls made on the instance
    op,               \* the last method called
    result,           \* "ok" or the exception it raised
    calls,            \* number of getopt calls made so far
    allOk,            \* every getopt call so far returned normally
    lastToks,         \* the (opt, val) pairs the tokenizer returned to the last call
    writes,           \* the setattr calls of the last getopt call, in order
    expected,         \* canonical form of every token of the calls so far
    \* ---- wrap_text / generate_help activation
    pc,               \* position in generate_help / wrap_text
    h_options,        \* generate_help: options
    h_header,         \* generate_help: header
    max_opt,          \* generate_help: max_opt
    h_idx,            \* generate_help: index of the option being formatted
    h_lines,          \* generate_help: lines
    w_text,           \* wrap_text: text
    w_width,          \* wrap_text: width
    chunks,           \* wrap_text: chunks
    w_lines           \* wrap_text: lines

engineVars == <<option_table, option_index, negative_alias, short_opts, long_opts,
                short2long, attr_name, takes_arg, option_order, object, op, result,
                calls, allOk, lastToks, writes, expected>>
textVars == <<pc, h_options, h_header, max_opt, h_idx, h_lines,
              w_text, w_width, chunks, w_lines>>
vars == <<engineVars, textVars>>

(***************************************************************************)
(* Bounds of the model.                                                    *)
(***************************************************************************)
MaxTable == 3      \* entries in an option table
MaxCalls == 2      \* getopt calls on one instance
MaxOrder == 2      \* option tokens bound over the life of one instance
MaxTextLen == 4    \* characters of a text handed to wrap_text
MaxWidth == 3      \* width handed to wrap_text
MaxLines == 6      \* lines one wrap_text call may accumulate
MaxHelpOpts == 2   \* entries of a table handed to generate_help

(***************************************************************************)
(* Generic helpers.                                                        *)
(***************************************************************************)
None == "None"
EmptyDict == << >>
Put(d, k, v) == [x \in (DOMAIN d) \cup {k} |-> IF x = k THEN v ELSE d[x]]
Last(s) == s[Len(s)]
Front(s) == SubSeq(s, 1, Len(s) - 1)
SeqsUpTo(S, n) == UNION {[1..k -> S] : k \in 0..n}
Range(s) == {s[i] : i \in DOMAIN s}

\* Python values bound to attributes: the integers 0 / 1 or a string.
IntVal(n) == [kind |-> "int", n |-> n, s |-> ""]
StrVal(s) == [kind |-> "str", n |-> 0, s |-> s]

(***************************************************************************)
(* The inputs: option tuples, negative-alias maps, option values.          *)
(***************************************************************************)
Letters == {"a", "b", "n", "o", "q", "u", "v"}
Digits == {"9"}
SingleChars == Letters \cup Digits \cup {"-", "=", ":", " "}

VERBOSE == <<"v", "b">>
NOVERBOSE == <<"n", "-", "v">>
OUT_ARG == <<"o", "u", "=">>
OUT == <<"o", "u">>

Options == { <<VERBOSE, "v", "h">>, <<NOVERBOSE, "q", "h">>, <<OUT_ARG, "o", "h">> }
AliasMaps == {EmptyDict} \cup
             {[k \in {NOVERBOSE} |-> p] : p \in {VERBOSE, NOVERBOSE, OUT_ARG, OUT}}
Vals == {"x"}
\* the option tables handed to the constructor: every table of at most two entries
InitTables == UNION {[1..k -> Options] : k \in {0, 1, 2}}

(***************************************************************************)
(* FancyGetopt.build_index, lines 91-93.                                   *)
(***************************************************************************)
RECURSIVE build_index(_, _)
build_index(index, table) ==
    IF table = << >> THEN index
    ELSE build_index(Put(index, table[1][1], table[1]), Tail(table))

(***************************************************************************)
(* longopt_re (lines 24-25) and longopt_xlate (line 32).                   *)
(***************************************************************************)
longopt_match(long) ==
    /\ Len(long) >= 1
    /\ long[1] \in Letters
    /\ \A i \in 2..Len(long) : long[i] \in Letters \cup Digits \cup {"-"}

translate(long) == [i \in 1..Len(long) |-> IF long[i] = "-" THEN "_" ELSE long[i]]

(***************************************************************************)
(* FancyGetopt._grok_option_table, lines 124-189.  c is the instance's     *)
(* compiled state; an exception leaves what was assigned before it.        *)
(***************************************************************************)
Compiled(so, lo, s2l, an, ta, err) ==
    [short_opts |-> so, long_opts |-> lo, short2long |-> s2l,
     attr_name |-> an, takes_arg |-> ta, err |-> err]

\* lines 173-185: the name check, attr_name and the short option
grok_finish(c, long, short) ==
    IF ~longopt_match(long)
    THEN [c EXCEPT !.err = "DistutilsGetoptError"]
    ELSE LET c1 == [c EXCEPT !.attr_name = Put(c.attr_name, long, translate(long))]
         IN  IF short = << >> THEN c1
             ELSE [c1 EXCEPT !.short_opts = Append(c1.short_opts, short),
                             !.short2long = Put(c1.short2long, short[1], long)]

\* lines 150-153: the option takes an argument
grok_arg_option(c, long, short) ==
    LET short1 == IF short # None THEN <<short, ":">> ELSE << >>
        long1 == Front(long)
    IN  grok_finish([c EXCEPT !.takes_arg = Put(c.takes_arg, long1, 1)], long1, short1)

\* lines 154-170: a boolean option, possibly a negative alias
grok_bool_option(c, long, short, alias) ==
    LET short1 == IF short # None THEN <<short>> ELSE << >>
    IN  IF long \in DOMAIN alias
        THEN IF alias[long] \notin DOMAIN c.takes_arg
             THEN [c EXCEPT !.err = "KeyError"]
             ELSE IF c.takes_arg[alias[long]] = 1
             THEN [c EXCEPT !.err = "DistutilsGetoptError"]
             ELSE grok_finish(
                      [c EXCEPT !.long_opts = [@ EXCEPT ![Len(@)] = long],
                                !.takes_arg = Put(c.takes_arg, long, 0)],
                      long, short1)
        ELSE grok_finish([c EXCEPT !.takes_arg = Put(c.takes_arg, long, 0)],
                         long, short1)

\* lines 131-170: one entry of the table
grok_option(c, option, alias) ==
    LET long == option[1]
        short == option[2]
    IN  IF Len(long) < 2
        THEN [c EXCEPT !.err = "DistutilsGetoptError"]
        ELSE IF ~(short = None \/ short \in SingleChars)
        THEN [c EXCEPT !.err = "DistutilsGetoptError"]
        ELSE LET c1 == [c EXCEPT !.long_opts = Append(c.long_opts, long)]
             IN  IF Last(long) = "="
                 THEN grok_arg_option(c1, long, short)
                 ELSE grok_bool_option(c1, long, short, alias)

RECURSIVE grok_option_table(_, _, _)
grok_option_table(c, table, alias) ==
    IF table = << >> \/ c.err # "ok" THEN c
    ELSE grok_option_table(grok_option(c, table[1], alias), Tail(table), alias)

(***************************************************************************)
(* getopt, line 213: string.join (self.short_opts) joins with a space.     *)
(***************************************************************************)
RECURSIVE join(_)
join(words) ==
    IF words = << >> THEN << >>
    ELSE IF Len(words) = 1 THEN words[1]
    ELSE words[1] \o <<" ">> \o join(Tail(words))

(***************************************************************************)
(* getopt, lines 214-217: what getopt.getopt may return for the compiled   *)
(* specs.  An option character is any character of the short spec but      *)
(* ':', taking a value when a ':' follows its first occurrence; a long     *)
(* option is an entry of the long spec, taking a value when it ends in '='.*)
(***************************************************************************)
FirstIndex(s, ch) == CHOOSE i \in 1..Len(s) : s[i] = ch /\ \A j \in 1..(i-1) : s[j] # ch

ShortTokens(spec) ==
    UNION { LET i == FirstIndex(spec, ch)
                has_arg == i < Len(spec) /\ spec[i+1] = ":"
            IN  { << <<"-", ch>>, v >> : v \in IF has_arg THEN Vals ELSE {""} }
          : ch \in Range(spec) \ {":"} }

LongTokens(longs) ==
    UNION { IF Last(e) = "="
            THEN { << <<"-", "-">> \o Front(e), v >> : v \in Vals }
            ELSE { << <<"-", "-">> \o e, "" >> }
          : e \in Range(longs) }

Tokens(c) == ShortTokens(join(c.short_opts)) \cup LongTokens(c.long_opts)

(***************************************************************************)
(* getopt, lines 219-244: binding the (opt, val) pairs.  b is the target   *)
(* record, the order record, the setattr calls made, and the exception.    *)
(***************************************************************************)
Bound(obj, order, wr, err) == [object |-> obj, order |-> order, writes |-> wr, err |-> err]

\* an order record that grows at the front
bind_set_front(b, c, opt, val) ==
    IF opt \notin DOMAIN c.attr_name
    THEN [b EXCEPT !.err = "KeyError"]
    ELSE LET attr == c.attr_name[opt]
         IN  Bound(Put(b.object, attr, val), <<<<opt, val>>>> \o b.order,
                   Append(b.writes, <<attr, val>>), "ok")

\* lines 242-244
bind_set(b, c, opt, val) ==
    IF opt \notin DOMAIN c.attr_name
    THEN [b EXCEPT !.err = "KeyError"]
    ELSE LET attr == c.attr_name[opt]
         IN  Bound(Put(b.object, attr, val), Append(b.order, <<opt, val>>),
                   Append(b.writes, <<attr, val>>), "ok")

\* a negative alias bound as true to its target
bind_value_no_inversion(b, c, alias, opt, val) ==
    IF opt \notin DOMAIN c.takes_arg
    THEN [b EXCEPT !.err = "KeyError"]
    ELSE IF c.takes_arg[opt] = 0
    THEN IF val # ""
         THEN [b EXCEPT !.err = "NameError"]
         ELSE IF opt \in DOMAIN alias
              THEN bind_set(b, c, alias[opt], IntVal(1))
              ELSE bind_set(b, c, opt, IntVal(1))
    ELSE bind_set(b, c, opt, StrVal(val))

\* lines 230-240
bind_value(b, c, alias, opt, val) ==
    IF opt \notin DOMAIN c.takes_arg
    THEN [b EXCEPT !.err = "KeyError"]
    ELSE IF c.takes_arg[opt] = 0
    THEN IF val # ""
         THEN [b EXCEPT !.err = "NameError"]
         ELSE IF opt \in DOMAIN alias
              THEN bind_set(b, c, alias[opt], IntVal(0))
              ELSE bind_set(b, c, opt, IntVal(1))
    ELSE bind_set(b, c, opt, StrVal(val))

\* lines 220-228
bind_token(b, c, alias, tok) ==
    LET opt == tok[1]
        val == tok[2]
    IN  IF Len(opt) = 2 /\ opt[1] = "-"
        THEN IF opt[2] \in DOMAIN c.short2long
             THEN bind_value(b, c, alias, c.short2long[opt[2]], val)
             ELSE [b EXCEPT !.err = "KeyError"]
        ELSE IF Len(opt) > 2 /\ SubSeq(opt, 1, 2) = <<"-", "-">>
        THEN bind_value(b, c, alias, SubSeq(opt, 3, Len(opt)), val)
        ELSE [b EXCEPT !.err = "DistutilsInternalError"]

RECURSIVE bind_all(_, _, _, _)
bind_all(b, c, alias, toks) ==
    IF toks = << >> \/ b.err # "ok" THEN b
    ELSE bind_all(bind_token(b, c, alias, toks[1]), c, alias, Tail(toks))

(***************************************************************************)
(* The canonical form of a tokenizer pair, read off the option table and   *)
(* the negative-alias map: the long name the pair names (the table entry   *)
(* carrying the short character, or the text after the dashes), replaced   *)
(* by its positive target when it is a value-less negative alias, paired   *)
(* with false (0) for an alias, true (1) for another value-less option and *)
(* the raw value for a value-taking one.                                   *)
(***************************************************************************)
Strip(long) == IF Last(long) = "=" THEN Front(long) ELSE long
LastWith(table, P(_)) == CHOOSE i \in DOMAIN table : P(table[i]) /\ \A j \in DOMAIN table : P(table[j]) => j <= i
NamedBy(table, opt) ==
    IF Len(opt) = 2
    THEN LET HasShort(o) == o[2] = opt[2] IN Strip(table[LastWith(table, HasShort)][1])
    ELSE SubSeq(opt, 3, Len(opt))
ValueLess(table, name) ==
    LET IsName(o) == Strip(o[1]) = name IN Last(table[LastWith(table, IsName)][1]) # "="
CanonEntry(table, alias, tok) ==
    LET name == NamedBy(table, tok[1])
    IN  IF ~ValueLess(table, name) THEN <<name, StrVal(tok[2])>>
        ELSE IF name \in DOMAIN alias THEN <<alias[name], IntVal(0)>>
        ELSE <<name, IntVal(1)>>
CanonAll(table, alias, toks) == [i \in 1..Len(toks) |-> CanonEntry(table, alias, toks[i])]

(***************************************************************************)
(* FancyGetopt.__init__, lines 52-86: the state after construction.        *)
(***************************************************************************)
TextIdle ==
    /\ pc = "idle" /\ h_options = << >> /\ h_header = << >> /\ max_opt = 0
    /\ h_idx = 0 /\ h_lines = << >> /\ w_text = << >> /\ w_width = 0
    /\ chunks = << >> /\ w_lines = << >>

Init ==
    /\ option_table \in InitTables
    /\ option_index = IF option_table # << >>
                      THEN build_index(EmptyDict, option_table) ELSE EmptyDict
    /\ negative_alias = EmptyDict
    /\ short_opts = << >> /\ long_opts = << >>
    /\ short2long = EmptyDict /\ attr_name = EmptyDict /\ takes_arg = EmptyDict
    /\ option_order = << >>
    /\ object = EmptyDict
    /\ op = "__init__" /\ result = "ok" /\ calls = 0
    /\ allOk = TRUE
    /\ lastToks = << >> /\ writes = << >> /\ expected = << >>
    /\ TextIdle

(***************************************************************************)
(* FancyGetopt.add_option, lines 95-102.                                   *)
(***************************************************************************)
add_option(option) ==
    IF option[1] \in DOMAIN option_index
    THEN [table |-> option_table, index |-> option_index, err |-> "DistutilsGetoptError"]
    ELSE [table |-> Append(option_table, option),
          index |-> Put(option_index, option[1], option), err |-> "ok"]

AddOption ==
    /\ Len(option_table) < MaxTable
    /\ \E option \in Options :
         LET r == add_option(option)
         IN  /\ option_table' = r.table
             /\ option_index' = r.index
             /\ op' = "add_option"
             /\ result' = r.err
    /\ UNCHANGED <<negative_alias, short_opts, long_opts, short2long, attr_name,
                   takes_arg, option_order, object, calls, allOk,
                   lastToks, writes, expected, textVars>>

(***************************************************************************)
(* FancyGetopt.set_negative_aliases, lines 104-121.                        *)
(***************************************************************************)
set_negative_aliases(alias) ==
    IF \E negopt \in DOMAIN alias :
           negopt \notin DOMAIN option_index \/ alias[negopt] \notin DOMAIN option_index
    THEN [alias |-> negative_alias, err |-> "DistutilsGetoptError"]
    ELSE [alias |-> alias, err |-> "ok"]

SetNegativeAliases ==
    /\ \E alias \in AliasMaps :
         LET r == set_negative_aliases(alias)
         IN  /\ negative_alias' = r.alias
             /\ op' = "set_negative_aliases"
             /\ result' = r.err
    /\ UNCHANGED <<option_table, option_index, short_opts, long_opts, short2long,
                   attr_name, takes_arg, option_order, object, calls,
                   allOk, lastToks, writes, expected, textVars>>

(***************************************************************************)
(* FancyGetopt.getopt, lines 192-253: compile, tokenize, bind.             *)
(***************************************************************************)
GetoptOutcomes(c) ==
    IF c.err # "ok"
    THEN { [c |-> c, toks |-> << >>, b |-> Bound(object, option_order, << >>, c.err)] }
    ELSE { [c |-> c, toks |-> << >>,
            b |-> Bound(object, option_order, << >>, "DistutilsArgError")] }
         \cup
         { [c |-> c, toks |-> toks,
            b |-> bind_all(Bound(object, option_order, << >>, "ok"), c,
                           negative_alias, toks)]
           : toks \in SeqsUpTo(Tokens(c), MaxOrder - Len(option_order)) }

Getopt ==
    /\ calls < MaxCalls
    /\ \E r \in GetoptOutcomes(grok_option_table(
                     Compiled(short_opts, long_opts, short2long, attr_name,
                              takes_arg, "ok"),
                     option_table, negative_alias)) :
         /\ short_opts' = r.c.short_opts
         /\ long_opts' = r.c.long_opts
         /\ short2long' = r.c.short2long
         /\ attr_name' = r.c.attr_name
         /\ takes_arg' = r.c.takes_arg
         /\ object' = r.b.object
         /\ option_order' = r.b.order
         /\ writes' = r.b.writes
         /\ lastToks' = r.toks
         /\ result' = r.b.err
         /\ allOk' = (allOk /\ r.b.err = "ok")
         /\ expected' = IF r.b.err = "ok"
                        THEN expected \o CanonAll(option_table, negative_alias, r.toks)
                        ELSE expected
    /\ op' = "getopt"
    /\ calls' = calls + 1
    /\ UNCHANGED <<option_table, option_index, negative_alias, textVars>>

(***************************************************************************)
(* FancyGetopt.get_option_order, lines 256-264.  The method is declared    *)
(* without a 'self' parameter: called on an instance it receives one       *)
(* argument more than it accepts, and its body never runs.                 *)
(***************************************************************************)
get_option_order(nargs, order) ==
    IF nargs # 0 THEN "TypeError"
    ELSE "NameError"

GetOptionOrder ==
    /\ op' = "get_option_order"
    /\ result' = get_option_order(1, option_order)
    /\ UNCHANGED <<option_table, option_index, negative_alias, short_opts, long_opts,
                   short2long, attr_name, takes_arg, option_order, object, calls,
                   allOk, lastToks, writes, expected, textVars>>

Next == AddOption \/ SetNegativeAliases \/ Getopt \/ GetOptionOrder

Spec == Init /\ [][Next]_vars

(***************************************************************************)
(* The parse-and-bind scenario of fancy_getopt(), lines 269-272: an        *)
(* instance is constructed from a table, its negative aliases are set and  *)
(* arguments are parsed, any number of times.                              *)
(***************************************************************************)
NextParse == SetNegativeAliases \/ Getopt

SpecParse == Init /\ [][NextParse]_vars

(***************************************************************************)
(* wrap_text, lines 277-330.  A text is a sequence of characters; the      *)
(* absent text (None) is the one-element sequence NoText.                  *)
(***************************************************************************)
NoText == <<None>>
TextChars == {"a", " ", "-", "\t", "\n"}

Min(a, b) == IF a < b THEN a ELSE b
Max(a, b) == IF a > b THEN a ELSE b
Spaces(n) == [i \in 1..n |-> " "]
RECURSIVE Flatten(_)
Flatten(ss) == IF ss = << >> THEN << >> ELSE ss[1] \o Flatten(Tail(ss))

\* Python's s[0:k] and s[k:], for any integer k
PyIndex(s, k) == IF k < 0 THEN Max(Len(s) + k, 0) ELSE Min(k, Len(s))
SliceTo(s, k) == SubSeq(s, 1, PyIndex(s, k))
SliceFrom(s, k) == SubSeq(s, PyIndex(s, k) + 1, Len(s))

\* line 284: string.expandtabs, tab stops every 8 columns, a newline restarts
\* the column count
RECURSIVE expandtabs(_, _)
expandtabs(text, col) ==
    IF text = << >> THEN << >>
    ELSE IF text[1] = "\t"
         THEN Spaces(8 - (col % 8)) \o expandtabs(Tail(text), 0)
         ELSE IF text[1] = "\n"
         THEN <<"\n">> \o expandtabs(Tail(text), 0)
         ELSE <<text[1]>> \o expandtabs(Tail(text), col + 1)

\* lines 275, 285: every whitespace character becomes a space
ws_translate(text) ==
    [i \in 1..Len(text) |-> IF text[i] \in {" ", "\t", "\n"} THEN " " ELSE text[i]]

\* lines 286-287: re.split (r'( +|-+)', text) without the empty strings: the
\* maximal runs of spaces, of hyphens, and of anything else
ChunkClass(ch) == IF ch = " " THEN "space" ELSE IF ch = "-" THEN "hyphen" ELSE "word"
RECURSIVE split_chunks(_, _)
split_chunks(text, acc) ==
    IF text = << >> THEN acc
    ELSE IF acc # << >> /\ ChunkClass(Last(acc)[1]) = ChunkClass(text[1])
         THEN split_chunks(Tail(text), [acc EXCEPT ![Len(acc)] = Append(@, text[1])])
         ELSE split_chunks(Tail(text), Append(acc, <<text[1]>>))

\* lines 295-305: pack chunks onto the current line while they fit
RECURSIVE pack(_, _, _, _)
pack(ch, cur_line, cur_len, width) ==
    IF ch = << >> THEN [chunks |-> ch, cur_line |-> cur_line, cur_len |-> cur_len]
    ELSE IF cur_len + Len(ch[1]) <= width
         THEN pack(Tail(ch), Append(cur_line, ch[1]), cur_len + Len(ch[1]), width)
         ELSE [chunks |-> ch,
               cur_line |-> IF cur_line # << >> /\ Last(cur_line)[1] = " "
                            THEN Front(cur_line) ELSE cur_line,
               cur_len |-> cur_len]

\* a break one character past the line width
hard_split_late(p, width) ==
    [p EXCEPT !.cur_line = Append(p.cur_line, SliceTo(p.chunks[1], width + 1)),
              !.chunks = <<SliceFrom(p.chunks[1], width + 1)>> \o Tail(p.chunks)]

\* lines 312-314: a chunk too big for a line is broken up at the line width
hard_split(p, width) ==
    [p EXCEPT !.cur_line = Append(p.cur_line, SliceTo(p.chunks[1], width)),
              !.chunks = <<SliceFrom(p.chunks[1], width)>> \o Tail(p.chunks)]

\* lines 292-324: one pass of the outer loop
wrap_line(ch, width) ==
    LET p == pack(ch, << >>, 0, width)
        q == IF p.chunks # << >> /\ p.cur_len = 0 THEN hard_split(p, width) ELSE p
    IN  IF q.chunks = << >>
        THEN [chunks |-> q.chunks, line |-> Flatten(q.cur_line), err |-> "ok"]
        ELSE IF q.chunks[1] = << >>
        THEN [chunks |-> q.chunks, line |-> << >>, err |-> "IndexError"]
        ELSE IF q.chunks[1][1] = " "
        THEN [chunks |-> Tail(q.chunks), line |-> Flatten(q.cur_line), err |-> "ok"]
        ELSE [chunks |-> q.chunks, line |-> Flatten(q.cur_line), err |-> "ok"]

\* lines 279-288
WrapStart ==
    /\ pc = "w_start"
    /\ IF w_text = NoText
       THEN pc' = "w_done" /\ w_lines' = << >> /\ chunks' = << >>
       ELSE IF Len(w_text) <= w_width
       THEN pc' = "w_done" /\ w_lines' = <<w_text>> /\ chunks' = << >>
       ELSE /\ pc' = "w_loop"
            /\ w_lines' = << >>
            /\ chunks' = split_chunks(ws_translate(expandtabs(w_text, 0)), << >>)
    /\ UNCHANGED <<engineVars, h_options, h_header, max_opt, h_idx, h_lines,
                   w_text, w_width>>

\* lines 290-324
WrapLine ==
    /\ pc = "w_loop"
    /\ chunks # << >>
    /\ Len(w_lines) < MaxLines
    /\ LET r == wrap_line(chunks, w_width)
       IN  IF r.err # "ok"
           THEN pc' = "w_error" /\ UNCHANGED <<chunks, w_lines>>
           ELSE pc' = pc /\ chunks' = r.chunks /\ w_lines' = Append(w_lines, r.line)
    /\ UNCHANGED <<engineVars, h_options, h_header, max_opt, h_idx, h_lines,
                   w_text, w_width>>

\* lines 290, 328
WrapReturn ==
    /\ pc = "w_loop"
    /\ chunks = << >>
    /\ pc' = "w_done"
    /\ UNCHANGED <<engineVars, h_options, h_header, max_opt, h_idx, h_lines,
                   w_text, w_width, chunks, w_lines>>

EngineIdle ==
    /\ option_table = << >> /\ option_index = EmptyDict /\ negative_alias = EmptyDict
    /\ short_opts = << >> /\ long_opts = << >>
    /\ short2long = EmptyDict /\ attr_name = EmptyDict /\ takes_arg = EmptyDict
    /\ option_order = << >> /\ object = EmptyDict
    /\ op = "none" /\ result = "ok" /\ calls = 0 /\ allOk = TRUE
    /\ lastToks = << >> /\ writes = << >> /\ expected = << >>

\* a call wrap_text (text, width) with width >= 1
InitWrap ==
    /\ EngineIdle
    /\ pc = "w_start"
    /\ w_text \in {NoText} \cup SeqsUpTo(TextChars, MaxTextLen)
    /\ w_width \in 1..MaxWidth
    /\ chunks = << >> /\ w_lines = << >>
    /\ h_options = << >> /\ h_header = << >> /\ max_opt = 0 /\ h_idx = 0
    /\ h_lines = << >>

NextWrap == WrapStart \/ WrapLine \/ WrapReturn

SpecWrap == InitWrap /\ [][NextWrap]_vars

(***************************************************************************)
(* Properties of the option-table engine.                                  *)
(***************************************************************************)
compiledVars == <<short_opts, long_opts, short2long, attr_name, takes_arg>>
CompileSucceeded == op = "getopt" /\ result \in {"ok", "DistutilsArgError"}
CompileFailed == op = "getopt" /\ lastToks = << >>
                 /\ result \notin {"ok", "DistutilsArgError"}
DistinctLongNames(table) ==
    \A i, j \in DOMAIN table : i # j => table[i][1] # table[j][1]
Reorderings(table) ==
    {p \in [DOMAIN table -> Range(table)] : Range(p) = Range(table)}
FreshCompiled == Compiled(<< >>, << >>, EmptyDict, EmptyDict, EmptyDict, "ok")
\* the position in the order record of the i-th setattr of the last getopt call
OrderIndex(i) == Len(option_order) - Len(writes) + i

\* C1: compilation is idempotent, not cumulative: a getopt call that follows a
\* getopt call whose compilation succeeded, the table and the alias map being
\* unchanged in between, leaves shortOptsSpec, longOptsSpec, shortToLong,
\* attrNameOf and takesValue as the first compilation left them.
C1_CompileIdempotent ==
    [][(CompileSucceeded /\ op' = "getopt") => compiledVars' = compiledVars]_vars

LastWrite(i) == \A k \in (i+1)..Len(writes) : writes[k][1] # writes[i][1]

ValueTakingTarget ==
    \E n \in DOMAIN negative_alias, i \in DOMAIN option_table :
        /\ Last(option_table[i][1]) = "="
        /\ negative_alias[n] \in {option_table[i][1], Front(option_table[i][1])}
C4_ValueTakingTargetRejected ==
    (op = "getopt" /\ ValueTakingTarget) =>
        (result = "DistutilsGetoptError" /\ lastToks = << >> /\ writes = << >>)

\* C5: the option table never holds two entries with the same long name.
C5_NoDuplicateLongNames == DistinctLongNames(option_table)

\* C6: get_option_order raises RuntimeError on an instance on which no parse
\* has occurred, and returns the order record after at least one parse.
C6_OrderAccessor ==
    op = "get_option_order" =>
        IF calls = 0 THEN result = "RuntimeError" ELSE result = "ok"

\* C10: for a table with distinct long names and an accepted negative-alias
\* map, whether the first compilation succeeds, and the takesValue and
\* attrNameOf maps it leaves, are those of every permutation of the table.
C10_TableOrderIrrelevant ==
    (op = "getopt" /\ calls = 1 /\ lastToks = << >>
        /\ DistinctLongNames(option_table)) =>
        \A p \in Reorderings(option_table) :
            LET g == grok_option_table(FreshCompiled, p, negative_alias)
            IN  /\ (g.err = "ok") = ~CompileFailed
                /\ g.err = "ok" => (g.takes_arg = takes_arg /\ g.attr_name = attr_name)

(***************************************************************************)
(* generate_help, lines 333-414.                                           *)
(***************************************************************************)
line_width == 78
Name(n) == [i \in 1..n |-> "a"]
DefaultHeader == <<"O", "p", "t", "i", "o", "n", " ", "s", "u", "m", "m", "a", "r", "y", ":">>

\* the texts, option tuples and headers handed to generate_help
HelpTexts == {NoText, << >>, <<"a", "a", " ", "a">>}
HelpOptions ==
    {<<Name(k), None, h>> : k \in {3, 71, 72, 73}, h \in HelpTexts}
    \cup {<<Name(66) \o <<"=">>, "x", h>> : h \in HelpTexts}
Headers == {NoText, <<"H">>, Name(79)}

\* lines 343-349: the room an option's names take
option_len(option) ==
    LET l0 == Len(option[1])
        l1 == IF Last(option[1]) = "=" THEN l0 - 1 ELSE l0
    IN  IF option[2] # None THEN l1 + 5 ELSE l1

\* lines 341-351
RECURSIVE compute_max_opt(_, _)
compute_max_opt(options, m) ==
    IF options = << >> THEN m
    ELSE compute_max_opt(Tail(options),
                         IF option_len(options[1]) > m THEN option_len(options[1]) ELSE m)

\* a left column that leaves out the gutter
opt_width_no_gutter(m) == m + 2 + 2

\* lines 353, 377, 378
opt_width(m) == m + 2 + 2 + 2
text_width(m) == line_width - opt_width(m)
big_indent(m) == Spaces(opt_width(m))

\* "%-*s" % (n, s): s left-justified in a field of n columns
ljust(s, n) == s \o Spaces(Max(n - Len(s), 0))

\* lines 387-408: the lines of one option, given its wrapped help text
format_option(option, m, text) ==
    LET long == IF Last(option[1]) = "=" THEN Front(option[1]) ELSE option[1]
        short == option[2]
        head(names) == <<" ", " ", "-", "-">> \o ljust(names, m) \o <<" ", " ">>
    IN  IF short = None
        THEN [err |-> "ok",
              lines |-> IF text # << >>
                        THEN <<head(long) \o text[1]>>
                             \o [i \in 1..(Len(text) - 1) |-> big_indent(m) \o text[i + 1]]
                        ELSE <<head(long)>>]
        ELSE IF text # << >>
             THEN [err |-> "ok",
                   lines |-> <<head(long \o <<" ", "(", "-", short, ")">>) \o text[1]>>]
             ELSE [err |-> "TypeError", lines |-> << >>]

\* lines 341-382
HelpStart ==
    /\ pc = "h_start"
    /\ max_opt' = compute_max_opt(h_options, 0)
    /\ h_lines' = IF h_header # NoText /\ h_header # << >>
                  THEN <<h_header>> ELSE <<DefaultHeader>>
    /\ h_idx' = 1
    /\ pc' = "h_loop"
    /\ UNCHANGED <<engineVars, h_options, h_header, w_text, w_width, chunks, w_lines>>

\* lines 384-386: the call wrap_text (help, text_width)
HelpOption ==
    /\ pc = "h_loop"
    /\ h_idx <= Len(h_options)
    /\ w_text' = h_options[h_idx][3]
    /\ w_width' = text_width(max_opt)
    /\ chunks' = << >>
    /\ w_lines' = << >>
    /\ pc' = "w_start"
    /\ UNCHANGED <<engineVars, h_options, h_header, max_opt, h_idx, h_lines>>

\* lines 387-408
HelpFormat ==
    /\ pc = "w_done"
    /\ LET r == format_option(h_options[h_idx], max_opt, w_lines)
       IN  IF r.err # "ok"
           THEN pc' = "h_error" /\ UNCHANGED <<h_lines, h_idx>>
           ELSE pc' = "h_loop" /\ h_lines' = h_lines \o r.lines /\ h_idx' = h_idx + 1
    /\ UNCHANGED <<engineVars, h_options, h_header, max_opt, w_text, w_width,
                   chunks, w_lines>>

\* line 412
HelpReturn ==
    /\ pc = "h_loop"
    /\ h_idx > Len(h_options)
    /\ pc' = "h_done"
    /\ UNCHANGED <<engineVars, h_options, h_header, max_opt, h_idx, h_lines,
                   w_text, w_width, chunks, w_lines>>

\* a call generate_help (options, header)
InitHelp ==
    /\ EngineIdle
    /\ pc = "h_start"
    /\ h_options \in SeqsUpTo(HelpOptions, MaxHelpOpts)
    /\ h_header \in Headers
    /\ max_opt = 0 /\ h_idx = 0 /\ h_lines = << >>
    /\ w_text = << >> /\ w_width = 0 /\ chunks = << >> /\ w_lines = << >>

NextHelp == HelpStart \/ HelpOption \/ WrapStart \/ WrapLine \/ WrapReturn
            \/ HelpFormat \/ HelpReturn

SpecHelp == InitHelp /\ [][NextHelp]_vars

(***************************************************************************)
(* Properties of wrap_text and generate_help.                              *)
(***************************************************************************)
OneWord(text) == text # NoText /\ \A i \in DOMAIN text : text[i] = "a"
ChunkChars == Len(Flatten(chunks))

\* C7 as stated: every line generate_help returns, for every option table and
\* every header, has at most 78 columns.
C7_EveryLineFits ==
    pc = "h_done" => \A i \in DOMAIN h_lines : Len(h_lines[i]) <= line_width

\* C7 as amended: every line after the first (the header, which is returned as
\* given) has at most 78 columns when the left column, maxOpt + 6 wide, is
\* itself at most 78 columns wide.
C7_OptionLinesFit ==
    (pc = "h_done" /\ max_opt + 6 <= line_width) =>
        \A i \in 2..Len(h_lines) : Len(h_lines[i]) <= line_width

\* a returned listing whose help text was wrapped onto a continuation line that
\* fills the 78 columns
C7_Witness ==
    /\ pc = "h_done"
    /\ max_opt = 71
    /\ \E i \in 3..Len(h_lines) :
           Len(h_lines[i]) = line_width /\ h_lines[i][line_width] = "a"

\* C8: for every text and every width >= 1 no line wrap_text returns is longer
\* than width, and a single chunk longer than width is cut into pieces of
\* exactly width characters, the remainder carried to the next line.
C8_LinesFitWidth ==
    /\ \A i \in DOMAIN w_lines : Len(w_lines[i]) <= w_width
    /\ (pc = "w_done" /\ OneWord(w_text) /\ Len(w_text) > w_width) =>
           /\ Flatten(w_lines) = w_text
           /\ \A i \in 1..(Len(w_lines) - 1) : Len(w_lines[i]) = w_width

\* a text of one chunk returned as a full piece and its remainder
C8_Witness ==
    /\ pc = "w_done"
    /\ w_text = <<"a", "a", "a">> /\ w_width = 2
    /\ w_lines = << <<"a", "a">>, <<"a">> >>

\* C9: every call generate_help makes to wrap_text consumes the chunk queue and
\* returns: each pass of its loop leaves fewer characters in the queue than it
\* found.
C9_WrapConsumesQueue ==
    [][(pc = "w_loop" /\ pc' = "w_loop") =>
           Len(Flatten(chunks')) < Len(Flatten(chunks))]_vars

====
